---- MODULE Spec2Model ----
(***************************************************************************)
(* LazyClassAttribute (marshmallow_dataclass/lazy_class_attribute.py):     *)
(* a class-level lazily computed attribute.  Each thread runs __get__ as a *)
(* stack of frames; every frame walks the statements of __get__ one        *)
(* synchronisation-relevant step at a time.                                *)
(***************************************************************************)
EXTENDS Naturals, Sequences, FiniteSets, TLC

\* ------------------------------------------------------------- bounds
MaxGets == 2        \* top-level reads issued in all (specification Spec)
MaxFlatGets == 3    \* top-level reads issued in all (specification FlatSpec)
MaxReads == 1       \* reads of a lazy attribute one run of func makes
MaxDepth == 3       \* frames of __get__ on one thread's call stack

Threads == {1, 2, 3}
Workers == {1, 2}   \* the threads that run in specification Spec
Slots == {"A", "B"}
NoThread == 0       \* _initializing_thread_id is None
NoEvent == 0        \* _initialized_event is None

\* ------------------------------------------------------------- values
\* Every Python object the model handles is a triple <<kind, slot, n>>.
NoneV == <<"None", "", 0>>
Absent == <<"absent", "", 0>>
SlotV(s) == <<"slot", s, 0>>
Fwd(s) == <<"fwd", s, 0>>
Obj(s, k) == <<"obj", s, k>>
Exc(s, k) == <<"exc", s, k>>
TypeErr == <<"TypeError", "", 0>>
AttrErr == <<"AttributeError", "", 0>>
IsExc(v) == v[1] \in {"exc", "TypeError", "AttributeError"}

\* Attribute names.  A slot is installed on the owner class under <<s, 1>>;
\* <<s, 2>> is a second name it may be bound to instead.
NoName == <<"", 0>>
NamesOf(s) == {<<s, 1>>, <<s, 2>>}
AllNames == UNION {NamesOf(s) : s \in Slots}
Args == {"cls", "inst", "none"}

VARIABLES
    name,           \* self.name
    fwd,            \* self.forward_value
    initializing,   \* self._initializing
    initThread,     \* self._initializing_thread_id
    initEvent,      \* self._initialized_event
    lock,           \* self._lock: the holder, or NoThread
    store,          \* cls.__dict__
    evSet,          \* the threading.Event objects that are set
    nev,            \* threading.Event objects created so far
    depth,          \* _init_depth.depth of each thread
    stack,          \* each thread's frames of __get__, innermost last
    result,         \* what each thread's last top-level read gave
    calls,          \* runs of self.func started, per slot
    gets,           \* top-level reads issued
    clean,          \* no run of the slot's func returned None or raised
    resolved,       \* the value the first successful run of func stored
    failed,         \* the events set by the cleanup of a run that raised
    firstName,      \* the first name each slot was given
    lastBound       \* the name the latest __set_name__ on each slot passed

vars == <<name, fwd, initializing, initThread, initEvent, lock, store, evSet,
          nev, depth, stack, result, calls, gets, clean, resolved, failed,
          firstName, lastBound>>

slotVars == <<initializing, initThread, initEvent, lock>>

\* ------------------------------------------------------------- helpers
GetInitDepth(t) == depth[t]

IncrementInitDepth(d) == d + 1

\* _decrement_init_depth with `new_depth <= 1` at line 28.
DecrementInitDepth_FloorAtOne(d) == IF d - 1 <= 1 THEN 0 ELSE d - 1

DecrementInitDepth(d) == IF d - 1 <= 0 THEN 0 ELSE d - 1

\* cls.__dict__.get(name): a missing key reads as None.
DictGet(n) == IF store[n] = Absent THEN NoneV ELSE store[n]

\* getattr(cls, name)
GetAttr(n) == store[n]

\* PreconditionError without the test of self.name at line 83.
PreconditionError_NoNameTest(s, arg) ==
    IF arg = "none" THEN TypeErr ELSE NoneV

\* Lines 76-86: the error __get__ raises before it touches anything.
PreconditionError(s, arg) ==
    IF arg = "none" THEN TypeErr
    ELSE IF name[s] = NoName THEN AttrErr
    ELSE NoneV

\* LockedBranch without the test of self._initializing at line 100.
LockedBranch_NoInitializingTest(s, n, t) ==
    IF DictGet(n) # SlotV(s) /\ DictGet(n) # NoneV THEN "resolved"
    ELSE "init"

\* LockedBranch with `_get_init_depth() >= 0` at line 108.
LockedBranch_DepthGeqZero(s, n, t) ==
    IF DictGet(n) # SlotV(s) /\ DictGet(n) # NoneV THEN "resolved"
    ELSE IF initializing[s] THEN
        IF initThread[s] = t THEN "forward"
        ELSE IF fwd[s] # NoneV /\ GetInitDepth(t) >= 0 THEN "forward"
        ELSE "wait"
    ELSE "init"

\* LockedBranch without lines 108-109: a thread that is not the initializer
\* always blocks.
LockedBranch_NoPlaceholder(s, n, t) ==
    IF DictGet(n) # SlotV(s) /\ DictGet(n) # NoneV THEN "resolved"
    ELSE IF initializing[s] THEN
        IF initThread[s] = t THEN "forward" ELSE "wait"
    ELSE "init"

\* LockedBranch without lines 101-102: the initializing thread is treated
\* like any other.
LockedBranch_NoSameThread(s, n, t) ==
    IF DictGet(n) # SlotV(s) /\ DictGet(n) # NoneV THEN "resolved"
    ELSE IF initializing[s] THEN
        IF fwd[s] # NoneV /\ GetInitDepth(t) > 0 THEN "forward" ELSE "wait"
    ELSE "init"

\* LockedBranch without the test `self.forward_value is not None` at line
\* 108.
LockedBranch_NoForwardTest(s, n, t) ==
    IF DictGet(n) # SlotV(s) /\ DictGet(n) # NoneV THEN "resolved"
    ELSE IF initializing[s] THEN
        IF initThread[s] = t THEN "forward"
        ELSE IF GetInitDepth(t) > 0 THEN "forward"
        ELSE "wait"
    ELSE "init"

\* Lines 95-120: which way the guarded block goes.
LockedBranch(s, n, t) ==
    IF DictGet(n) # SlotV(s) /\ DictGet(n) # NoneV THEN "resolved"
    ELSE IF initializing[s] THEN
        IF initThread[s] = t THEN "forward"
        ELSE IF fwd[s] # NoneV /\ GetInitDepth(t) > 0 THEN "forward"
        ELSE "wait"
    ELSE "init"

Top(t) == stack[t][Len(stack[t])]

Below(t) == SubSeq(stack[t], 1, Len(stack[t]) - 1)

SetTop(t, f) == [stack EXCEPT ![t] = Below(t) \o <<f>>]

\* The locals of a call that got past lines 76-89: cls is the owner class,
\* given or taken from the instance, or None when neither was given.
NewFrame(s, arg) ==
    [s |-> s, cls |-> IF arg = "none" THEN "None" ELSE "Owner", n |-> name[s],
     pc |-> "lock", ev |-> NoEvent, val |-> NoneV, rd |-> 0, w |-> 0,
     got |-> NoneV, inv |-> 0]

\* What a finished top-level read leaves in result: the slot, the value
\* returned (or the exception raised), how often the call blocked, the run of
\* func it made (0: none) and, for an error of lines 76-86, the argument.
Outcome(s, v, w, inv, a) == [s |-> s, v |-> v, w |-> w, inv |-> inv, a |-> a]

\* A call of __get__ on slot s ends with v (returned, or raised when v is an
\* exception) and control goes back to `below`: to the thread's top level, or
\* to the run of func that made the call, which now holds v (or has caught
\* the exception v).
ReturnTo(t, below, out) ==
    IF below = <<>>
    THEN /\ stack' = [stack EXCEPT ![t] = <<>>]
         /\ result' = [result EXCEPT ![t] = out]
    ELSE /\ stack' = [stack EXCEPT ![t] =
                        SubSeq(below, 1, Len(below) - 1) \o
                        <<[below[Len(below)] EXCEPT !.got = out.v]>>]
         /\ UNCHANGED result

FrameOutcome(f, v) == Outcome(f.s, v, f.w, f.inv, "")

\* ------------------------------------------------------------- actions
Init ==
    /\ name = [s \in Slots |-> IF s = "A" THEN <<s, 1>> ELSE NoName]
    /\ fwd \in [Slots -> {NoneV} \cup {Fwd(s) : s \in Slots}]
    /\ \A s \in Slots : fwd[s] \in {NoneV, Fwd(s)}
    /\ initializing = [s \in Slots |-> FALSE]
    /\ initThread = [s \in Slots |-> NoThread]
    /\ initEvent = [s \in Slots |-> NoEvent]
    /\ lock = [s \in Slots |-> NoThread]
    /\ store = [n \in AllNames |-> IF n[2] = 1 THEN SlotV(n[1]) ELSE Absent]
    /\ evSet = {}
    /\ nev = 0
    /\ depth = [t \in Threads |-> 0]
    /\ stack = [t \in Threads |-> <<>>]
    /\ result = [t \in Threads |-> Outcome("", NoneV, 0, 0, "")]
    /\ calls = [s \in Slots |-> 0]
    /\ gets = 0
    /\ clean = [s \in Slots |-> TRUE]
    /\ resolved = [s \in Slots |-> Absent]
    /\ failed = {}
    /\ firstName = name
    /\ lastBound = [s \in Slots |-> NoName]

\* Bind without the test at line 141: the latest name wins.
Bind_LastWins(s, n) ==
    /\ name' = [name EXCEPT ![s] = n]
    /\ firstName' = [firstName EXCEPT ![s] = IF @ = NoName THEN n ELSE @]
    /\ lastBound' = [lastBound EXCEPT ![s] = n]
    /\ UNCHANGED <<fwd, initializing, initThread, initEvent, lock, store,
                   evSet, nev, depth, stack, result, calls, gets, clean,
                   resolved, failed>>

\* __set_name__ (lines 140-142)
Bind(s, n) ==
    /\ name' = [name EXCEPT ![s] = IF name[s] = NoName THEN n ELSE name[s]]
    /\ firstName' = [firstName EXCEPT ![s] = IF @ = NoName THEN n ELSE @]
    /\ lastBound' = [lastBound EXCEPT ![s] = n]
    /\ UNCHANGED <<fwd, initializing, initThread, initEvent, lock, store,
                   evSet, nev, depth, stack, result, calls, gets, clean,
                   resolved, failed>>

\* A thread with an empty stack reads the attribute: lines 75-89.
TopGet(t, s, arg) ==
    /\ stack[t] = <<>>
    /\ gets' = gets + 1
    /\ IF PreconditionError(s, arg) # NoneV
       THEN ReturnTo(t, <<>>, Outcome(s, PreconditionError(s, arg), 0, 0, arg))
       ELSE /\ stack' = [stack EXCEPT ![t] = <<NewFrame(s, arg)>>]
            /\ UNCHANGED result
    /\ UNCHANGED <<name, fwd, slotVars, store, evSet, nev, depth, calls,
                   clean, resolved, failed, firstName, lastBound>>

\* self.func(), running at line 125, reads a lazy attribute: lines 75-89 of
\* the nested call.
NestedGet(t, s, arg) ==
    /\ stack[t] # <<>>
    /\ Top(t).pc = "compute"
    /\ Top(t).rd < MaxReads
    /\ Len(stack[t]) < MaxDepth
    /\ LET caller == Below(t) \o <<[Top(t) EXCEPT !.rd = @ + 1]>>
       IN IF PreconditionError(s, arg) # NoneV
          THEN ReturnTo(t, caller,
                        Outcome(s, PreconditionError(s, arg), 0, 0, arg))
          ELSE /\ stack' = [stack EXCEPT ![t] = caller \o <<NewFrame(s, arg)>>]
               /\ UNCHANGED result
    /\ UNCHANGED <<name, fwd, slotVars, store, evSet, nev, depth, calls,
                   gets, clean, resolved, failed, firstName, lastBound>>

\* Line 94: with self._lock (acquire).
Acquire(t) ==
    /\ stack[t] # <<>>
    /\ Top(t).pc = "lock"
    /\ lock[Top(t).s] = NoThread
    /\ lock' = [lock EXCEPT ![Top(t).s] = t]
    /\ stack' = SetTop(t, [Top(t) EXCEPT !.pc = "locked"])
    /\ UNCHANGED <<name, fwd, initializing, initThread, initEvent, store,
                   evSet, nev, depth, result, calls, gets, clean, resolved,
                   failed, firstName, lastBound>>

\* Locked with lines 122-136 inside the with block of line 94: the lock is
\* still held when func runs.
Locked_HoldAcrossCompute(t) ==
    /\ stack[t] # <<>>
    /\ Top(t).pc = "locked"
    /\ LET f == Top(t)
           s == f.s
           br == LockedBranch(s, f.n, t)
       IN \/ /\ br = "resolved"
             /\ stack' = SetTop(t, [f EXCEPT !.pc = "ret98"])
             /\ UNCHANGED <<initializing, initThread, initEvent, lock, nev,
                            result>>
          \/ /\ br = "forward"
             /\ lock' = [lock EXCEPT ![s] = NoThread]
             /\ ReturnTo(t, Below(t), FrameOutcome(f, fwd[s]))
             /\ UNCHANGED <<initializing, initThread, initEvent, nev>>
          \/ /\ br = "wait"
             /\ IF initEvent[s] = NoEvent
                THEN /\ nev' = nev + 1
                     /\ initEvent' = [initEvent EXCEPT ![s] = nev + 1]
                ELSE UNCHANGED <<nev, initEvent>>
             /\ stack' = SetTop(t, [f EXCEPT !.pc = "wait", !.w = @ + 1,
                                             !.ev = initEvent'[s]])
             /\ lock' = [lock EXCEPT ![s] = NoThread]
             /\ UNCHANGED <<initializing, initThread, result>>
          \/ /\ br = "init"
             /\ initializing' = [initializing EXCEPT ![s] = TRUE]
             /\ initThread' = [initThread EXCEPT ![s] = t]
             /\ nev' = nev + 1
             /\ initEvent' = [initEvent EXCEPT ![s] = nev + 1]
             /\ stack' = SetTop(t, [f EXCEPT !.pc = "init", !.ev = nev + 1])
             /\ UNCHANGED <<lock, result>>
    /\ UNCHANGED <<name, fwd, store, evSet, depth, calls, gets, clean,
                   resolved, failed, firstName, lastBound>>

\* Locked with a waiter that always makes an event of its own at lines
\* 111-114 and does not put it in _init_event.
Locked_WaitOnOwnEvent(t) ==
    /\ stack[t] # <<>>
    /\ Top(t).pc = "locked"
    /\ LET f == Top(t)
           s == f.s
           br == LockedBranch(s, f.n, t)
       IN \/ /\ br = "resolved"
             /\ stack' = SetTop(t, [f EXCEPT !.pc = "ret98"])
             /\ UNCHANGED <<initializing, initThread, initEvent, lock, nev,
                            result>>
          \/ /\ br = "forward"
             /\ lock' = [lock EXCEPT ![s] = NoThread]
             /\ ReturnTo(t, Below(t), FrameOutcome(f, fwd[s]))
             /\ UNCHANGED <<initializing, initThread, initEvent, nev>>
          \/ /\ br = "wait"
             /\ nev' = nev + 1
             /\ UNCHANGED initEvent
             /\ stack' = SetTop(t, [f EXCEPT !.pc = "wait", !.w = @ + 1,
                                             !.ev = nev + 1])
             /\ lock' = [lock EXCEPT ![s] = NoThread]
             /\ UNCHANGED <<initializing, initThread, result>>
          \/ /\ br = "init"
             /\ initializing' = [initializing EXCEPT ![s] = TRUE]
             /\ initThread' = [initThread EXCEPT ![s] = t]
             /\ nev' = nev + 1
             /\ initEvent' = [initEvent EXCEPT ![s] = nev + 1]
             /\ stack' = SetTop(t, [f EXCEPT !.pc = "init", !.ev = nev + 1])
             /\ lock' = [lock EXCEPT ![s] = NoThread]
             /\ UNCHANGED result
    /\ UNCHANGED <<name, fwd, store, evSet, depth, calls, gets, clean,
                   resolved, failed, firstName, lastBound>>

\* Lines 95-120, under the lock, and the release at the end of the block.
Locked(t) ==
    /\ stack[t] # <<>>
    /\ Top(t).pc = "locked"
    /\ LET f == Top(t)
           s == f.s
           br == LockedBranch(s, f.n, t)
       IN \/ /\ br = "resolved"
             /\ stack' = SetTop(t, [f EXCEPT !.pc = "ret98"])
             /\ UNCHANGED <<initializing, initThread, initEvent, lock, nev,
                            result>>
          \/ /\ br = "forward"
             /\ lock' = [lock EXCEPT ![s] = NoThread]
             /\ ReturnTo(t, Below(t), FrameOutcome(f, fwd[s]))
             /\ UNCHANGED <<initializing, initThread, initEvent, nev>>
          \/ /\ br = "wait"
             /\ IF initEvent[s] = NoEvent
                THEN /\ nev' = nev + 1
                     /\ initEvent' = [initEvent EXCEPT ![s] = nev + 1]
                ELSE UNCHANGED <<nev, initEvent>>
             /\ stack' = SetTop(t, [f EXCEPT !.pc = "wait", !.w = @ + 1,
                                             !.ev = initEvent'[s]])
             /\ lock' = [lock EXCEPT ![s] = NoThread]
             /\ UNCHANGED <<initializing, initThread, result>>
          \/ /\ br = "init"
             /\ initializing' = [initializing EXCEPT ![s] = TRUE]
             /\ initThread' = [initThread EXCEPT ![s] = t]
             /\ nev' = nev + 1
             /\ initEvent' = [initEvent EXCEPT ![s] = nev + 1]
             /\ stack' = SetTop(t, [f EXCEPT !.pc = "init", !.ev = nev + 1])
             /\ lock' = [lock EXCEPT ![s] = NoThread]
             /\ UNCHANGED result
    /\ UNCHANGED <<name, fwd, store, evSet, depth, calls, gets, clean,
                   resolved, failed, firstName, lastBound>>

\* Ret98 with a call of _decrement_init_depth before the return of line 98.
Ret98_DecrementsDepth(t) ==
    /\ stack[t] # <<>>
    /\ Top(t).pc = "ret98"
    /\ lock' = [lock EXCEPT ![Top(t).s] = NoThread]
    /\ ReturnTo(t, Below(t), FrameOutcome(Top(t), GetAttr(Top(t).n)))
    /\ depth' = [depth EXCEPT ![t] = DecrementInitDepth(depth[t])]
    /\ UNCHANGED <<name, fwd, initializing, initThread, initEvent, store,
                   evSet, nev, calls, gets, clean, resolved, failed,
                   firstName, lastBound>>

\* Line 98: return getattr(cls, name), leaving the with block.
Ret98(t) ==
    /\ stack[t] # <<>>
    /\ Top(t).pc = "ret98"
    /\ lock' = [lock EXCEPT ![Top(t).s] = NoThread]
    /\ ReturnTo(t, Below(t), FrameOutcome(Top(t), GetAttr(Top(t).n)))
    /\ UNCHANGED <<name, fwd, initializing, initThread, initEvent, store,
                   evSet, nev, depth, calls, gets, clean, resolved, failed,
                   firstName, lastBound>>

\* Line 138: event.wait() returns once the event is set; the loop restarts.
Wait(t) ==
    /\ stack[t] # <<>>
    /\ Top(t).pc = "wait"
    /\ Top(t).ev \in evSet
    /\ stack' = SetTop(t, [Top(t) EXCEPT !.pc = "lock"])
    /\ UNCHANGED <<name, fwd, slotVars, store, evSet, nev, depth, result,
                   calls, gets, clean, resolved, failed,
                   firstName, lastBound>>

\* Lines 122-125: _increment_init_depth() and the call of self.func.
StartCompute(t) ==
    /\ stack[t] # <<>>
    /\ Top(t).pc = "init"
    /\ depth' = [depth EXCEPT ![t] = IncrementInitDepth(depth[t])]
    /\ calls' = [calls EXCEPT ![Top(t).s] = @ + 1]
    /\ stack' = SetTop(t, [Top(t) EXCEPT !.pc = "compute",
                                         !.inv = calls[Top(t).s] + 1])
    /\ UNCHANGED <<name, fwd, slotVars, store, evSet, nev, result, gets,
                   clean, resolved, failed, firstName, lastBound>>

\* self.func returns: the fresh object of this run, or None.
ComputeReturn(t, none) ==
    /\ stack[t] # <<>>
    /\ Top(t).pc = "compute"
    /\ stack' = SetTop(t, [Top(t) EXCEPT
                              !.pc = "set126",
                              !.val = IF none THEN NoneV
                                      ELSE Obj(Top(t).s, Top(t).inv)])
    /\ clean' = [clean EXCEPT ![Top(t).s] = @ /\ ~none]
    /\ UNCHANGED <<name, fwd, slotVars, store, evSet, nev, depth, result,
                   calls, gets, resolved, failed, firstName, lastBound>>

\* self.func raises: an exception of its own (own), or the one its last read
\* of a lazy attribute raised.
ComputeRaise(t, own) ==
    /\ stack[t] # <<>>
    /\ Top(t).pc = "compute"
    /\ own \/ IsExc(Top(t).got)
    /\ stack' = SetTop(t, [Top(t) EXCEPT
                              !.pc = "fin129",
                              !.val = IF own THEN Exc(Top(t).s, Top(t).inv)
                                      ELSE Top(t).got])
    /\ clean' = [clean EXCEPT ![Top(t).s] = FALSE]
    /\ UNCHANGED <<name, fwd, slotVars, store, evSet, nev, depth, result,
                   calls, gets, resolved, failed, firstName, lastBound>>

\* Line 126: setattr(cls, name, value)
SetAttr(t) ==
    /\ stack[t] # <<>>
    /\ Top(t).pc = "set126"
    /\ store' = [store EXCEPT ![Top(t).n] = Top(t).val]
    /\ resolved' = [resolved EXCEPT ![Top(t).s] =
                      IF @ = Absent THEN Top(t).val ELSE @]
    /\ stack' = SetTop(t, [Top(t) EXCEPT !.pc = "ret127"])
    /\ UNCHANGED <<name, fwd, slotVars, evSet, nev, depth, result, calls,
                   gets, clean, failed, firstName, lastBound>>

\* Line 127: return getattr(cls, name); the finally block runs next.
Ret127(t) ==
    /\ stack[t] # <<>>
    /\ Top(t).pc = "ret127"
    /\ stack' = SetTop(t, [Top(t) EXCEPT !.pc = "fin129",
                                         !.val = GetAttr(Top(t).n)])
    /\ UNCHANGED <<name, fwd, slotVars, store, evSet, nev, depth, result,
                   calls, gets, clean, resolved, failed,
                   firstName, lastBound>>

\* DecDepth with _decrement_init_depth() at the end of the try block instead
\* of in the finally block: it is skipped when self.func raised.
DecDepth_NotOnRaise(t) ==
    /\ stack[t] # <<>>
    /\ Top(t).pc = "fin129"
    /\ depth' = [depth EXCEPT ![t] = IF IsExc(Top(t).val) THEN @
                                      ELSE DecrementInitDepth(@)]
    /\ stack' = SetTop(t, [Top(t) EXCEPT !.pc = "fin130"])
    /\ UNCHANGED <<name, fwd, slotVars, store, evSet, nev, result, calls,
                   gets, clean, resolved, failed, firstName, lastBound>>

\* Line 129: _decrement_init_depth()
DecDepth(t) ==
    /\ stack[t] # <<>>
    /\ Top(t).pc = "fin129"
    /\ depth' = [depth EXCEPT ![t] = DecrementInitDepth(depth[t])]
    /\ stack' = SetTop(t, [Top(t) EXCEPT !.pc = "fin130"])
    /\ UNCHANGED <<name, fwd, slotVars, store, evSet, nev, result, calls,
                   gets, clean, resolved, failed, firstName, lastBound>>

\* Line 130: with self._lock (acquire) in the finally block.
FinAcquire(t) ==
    /\ stack[t] # <<>>
    /\ Top(t).pc = "fin130"
    /\ lock[Top(t).s] = NoThread
    /\ lock' = [lock EXCEPT ![Top(t).s] = t]
    /\ stack' = SetTop(t, [Top(t) EXCEPT !.pc = "fin131"])
    /\ UNCHANGED <<name, fwd, initializing, initThread, initEvent, store,
                   evSet, nev, depth, result, calls, gets, clean, resolved,
                   failed, firstName, lastBound>>

\* Cleanup as the code after the try block instead of a finally block: it
\* does not run when self.func raised.
Cleanup_NotOnRaise(t) ==
    /\ stack[t] # <<>>
    /\ Top(t).pc = "fin131"
    /\ LET f == Top(t)
           s == f.s
       IN /\ initializing' = [initializing EXCEPT ![s] = IsExc(f.val)]
          /\ initThread' = [initThread EXCEPT ![s] =
                              IF IsExc(f.val) THEN @ ELSE NoThread]
          /\ initEvent' = [initEvent EXCEPT ![s] =
                             IF IsExc(f.val) THEN @ ELSE NoEvent]
          /\ evSet' = IF initEvent[s] # NoEvent /\ ~IsExc(f.val)
                      THEN evSet \cup {initEvent[s]} ELSE evSet
          /\ UNCHANGED failed
          /\ lock' = [lock EXCEPT ![s] = NoThread]
          /\ ReturnTo(t, Below(t), FrameOutcome(f, f.val))
    /\ UNCHANGED <<name, fwd, store, nev, depth, calls, gets, clean,
                   resolved, firstName, lastBound>>

\* Cleanup without lines 135-136: the event is dropped but never set.
Cleanup_NoEventSet(t) ==
    /\ stack[t] # <<>>
    /\ Top(t).pc = "fin131"
    /\ LET f == Top(t)
           s == f.s
       IN /\ initializing' = [initializing EXCEPT ![s] = FALSE]
          /\ initThread' = [initThread EXCEPT ![s] = NoThread]
          /\ initEvent' = [initEvent EXCEPT ![s] = NoEvent]
          /\ UNCHANGED <<evSet, failed>>
          /\ lock' = [lock EXCEPT ![s] = NoThread]
          /\ ReturnTo(t, Below(t), FrameOutcome(f, f.val))
    /\ UNCHANGED <<name, fwd, store, nev, depth, calls, gets, clean,
                   resolved, firstName, lastBound>>

\* Cleanup without line 132: _initializing_thread_id is left as it was.
Cleanup_KeepThreadId(t) ==
    /\ stack[t] # <<>>
    /\ Top(t).pc = "fin131"
    /\ LET f == Top(t)
           s == f.s
       IN /\ initializing' = [initializing EXCEPT ![s] = FALSE]
          /\ initEvent' = [initEvent EXCEPT ![s] = NoEvent]
          /\ evSet' = IF initEvent[s] # NoEvent
                      THEN evSet \cup {initEvent[s]} ELSE evSet
          /\ failed' = IF IsExc(f.val) /\ initEvent[s] # NoEvent
                       THEN failed \cup {initEvent[s]} ELSE failed
          /\ lock' = [lock EXCEPT ![s] = NoThread]
          /\ ReturnTo(t, Below(t), FrameOutcome(f, f.val))
    /\ UNCHANGED <<name, fwd, initThread, store, nev, depth, calls, gets,
                   clean, resolved, firstName, lastBound>>

\* Cleanup without line 136: the event that was set stays in _init_event.
Cleanup_KeepEvent(t) ==
    /\ stack[t] # <<>>
    /\ Top(t).pc = "fin131"
    /\ LET f == Top(t)
           s == f.s
       IN /\ initializing' = [initializing EXCEPT ![s] = FALSE]
          /\ initThread' = [initThread EXCEPT ![s] = NoThread]
          /\ initEvent' = initEvent
          /\ evSet' = IF initEvent[s] # NoEvent
                      THEN evSet \cup {initEvent[s]} ELSE evSet
          /\ failed' = IF IsExc(f.val) /\ initEvent[s] # NoEvent
                       THEN failed \cup {initEvent[s]} ELSE failed
          /\ lock' = [lock EXCEPT ![s] = NoThread]
          /\ ReturnTo(t, Below(t), FrameOutcome(f, f.val))
    /\ UNCHANGED <<name, fwd, store, nev, depth, calls, gets, clean,
                   resolved, firstName, lastBound>>

\* Lines 131-136, the release of the lock, and the pending return or raise.
Cleanup(t) ==
    /\ stack[t] # <<>>
    /\ Top(t).pc = "fin131"
    /\ LET f == Top(t)
           s == f.s
       IN /\ initializing' = [initializing EXCEPT ![s] = FALSE]
          /\ initThread' = [initThread EXCEPT ![s] = NoThread]
          /\ initEvent' = [initEvent EXCEPT ![s] = NoEvent]
          /\ evSet' = IF initEvent[s] # NoEvent
                      THEN evSet \cup {initEvent[s]} ELSE evSet
          /\ failed' = IF IsExc(f.val) /\ initEvent[s] # NoEvent
                       THEN failed \cup {initEvent[s]} ELSE failed
          /\ lock' = [lock EXCEPT ![s] = NoThread]
          /\ ReturnTo(t, Below(t), FrameOutcome(f, f.val))
    /\ UNCHANGED <<name, fwd, store, nev, depth, calls, gets, clean,
                   resolved, firstName, lastBound>>

\* The steps of a call in progress.
Run(t) ==
    \/ Acquire(t)
    \/ Locked(t)
    \/ Ret98(t)
    \/ Wait(t)
    \/ StartCompute(t)
    \/ \E none \in BOOLEAN : ComputeReturn(t, none)
    \/ \E own \in BOOLEAN : ComputeRaise(t, own)
    \/ SetAttr(t)
    \/ Ret127(t)
    \/ DecDepth(t)
    \/ FinAcquire(t)
    \/ Cleanup(t)

\* Two threads, two lazy attributes, func may read lazy attributes.
Next ==
    \/ \E t \in Workers, s \in Slots, arg \in Args :
         gets < MaxGets /\ TopGet(t, s, arg)
    \/ \E t \in Workers, s \in Slots, arg \in Args : NestedGet(t, s, arg)
    \/ \E t \in Workers : Run(t)
    \/ \E s \in Slots : \E n \in NamesOf(s) :
         name[s] = NoName /\ Bind(s, n)

Spec == Init /\ [][Next]_vars

\* The scheduler runs every thread that can run; a run of func ends.
FairSpec == Spec /\ \A t \in Workers : WF_vars(Run(t))

\* Three threads and one lazy attribute whose func reads no lazy attribute.
FlatNext ==
    \/ \E t \in Threads, arg \in Args :
         gets < MaxFlatGets /\ TopGet(t, "A", arg)
    \/ \E t \in Threads : Run(t)

FlatSpec == Init /\ [][FlatNext]_vars

\* FlatSpec under a scheduler that runs every thread that can run; a run of
\* func ends, by returning or by raising.
FlatFairSpec == FlatSpec /\ \A t \in Threads : WF_vars(Run(t))

\* Two threads read slot B, also from inside its func, while __set_name__ is
\* called on either slot at any time, bound or not.
BindNext ==
    \/ \E t \in Workers, arg \in Args :
         gets < MaxGets /\ TopGet(t, "B", arg)
    \/ \E t \in Workers, arg \in Args : NestedGet(t, "B", arg)
    \/ \E t \in Workers : Run(t)
    \/ \E s \in Slots : \E n \in NamesOf(s) : Bind(s, n)

BindSpec == Init /\ [][BindNext]_vars

\* ------------------------------------------------------------- properties
\* The frames, as <<thread, position>>, that are the initializer of slot s:
\* between line 120 (should_initialize) and the end of the finally block.
InitPcs == {"init", "compute", "set126", "ret127", "fin129", "fin130", "fin131"}

Initializers(s) ==
    {p \in Threads \X (1..MaxDepth) :
        /\ p[2] <= Len(stack[p[1]])
        /\ stack[p[1]][p[2]].s = s
        /\ stack[p[1]][p[2]].pc \in InitPcs}

\* A finished top-level read that got past lines 76-86.
Completed(t, s) == result[t].s = s /\ result[t].a = ""

\* C1: as long as every run of a slot's func returned a fresh object, func
\* ran at most once, and every top-level read of the slot, from whichever
\* thread, returned the object of that one run.
C1_ExactlyOnce ==
    \A s \in Slots :
        clean[s] =>
            /\ calls[s] <= 1
            /\ \A t \in Threads : Completed(t, s) => result[t].v = Obj(s, 1)

\* C1 witness: three threads read A concurrently, one of them blocked, func
\* ran once and all three hold its object.
C1_Witness ==
    /\ calls["A"] = 1
    /\ \A t \in Threads : Completed(t, "A") /\ result[t].v = Obj("A", 1)
    /\ \E t \in Threads : result[t].w >= 1
    /\ \E t \in Threads : result[t].inv = 1

\* C2: a top-level read (depth 0) never returns the forward value; one that
\* blocked while another thread initialized returns, like the initializer,
\* the object that run stored (when every run of func returned an object).
C2_NoForwardLeak ==
    \A t \in Threads :
        /\ result[t].v[1] # "fwd"
        /\ \A s \in Slots :
             (/\ Completed(t, s)
              /\ clean[s]
              /\ (result[t].w >= 1 \/ result[t].inv >= 1))
                => (result[t].v = resolved[s] /\ resolved[s][1] = "obj")

\* C2 witness: A has a forward value, T1 initialized it, T2 blocked
\* meanwhile, and both hold the computed object.
C2_Witness ==
    \E t1, t2 \in Threads :
        /\ fwd["A"] = Fwd("A")
        /\ Completed(t1, "A") /\ result[t1].inv = 1
        /\ Completed(t2, "A") /\ result[t2].w >= 1 /\ result[t2].inv = 0
        /\ result[t1].v = Obj("A", 1) /\ result[t2].v = Obj("A", 1)

\* C8: a slot has at most one initializer frame; that frame's thread is the
\* recorded initializing thread; and, whenever the lock is free,
\* _initializing_thread_id is set iff _initializing is.
C8_SingleInitializer ==
    \A s \in Slots :
        /\ Cardinality(Initializers(s)) <= 1
        /\ \A p \in Initializers(s) : initializing[s] /\ initThread[s] = p[1]
        /\ lock[s] = NoThread => (initThread[s] # NoThread <=> initializing[s])

\* C8 witness: the lock of A is free, one thread is inside func for A and
\* another one is blocked on A's event.
C8_Witness ==
    \E t1, t2 \in Threads :
        /\ lock["A"] = NoThread /\ initializing["A"] /\ initThread["A"] = t1
        /\ stack[t1] # <<>> /\ Top(t1).pc = "compute" /\ Top(t1).s = "A"
        /\ stack[t2] # <<>> /\ Top(t2).pc = "wait" /\ Top(t2).s = "A"

\* C9: a thread that is in no call of __get__ has depth 0.
C9_DepthHygiene == \A t \in Threads : stack[t] = <<>> => depth[t] = 0

\* C9 witness: a top-level read of A ended with the exception that the func
\* of B raised inside the func of A, and the thread's depth is 0.
C9_Witness ==
    \E t \in Threads :
        /\ stack[t] = <<>> /\ depth[t] = 0
        /\ result[t].s = "A" /\ result[t].v = Exc("B", 1) /\ result[t].inv >= 1

\* Thread t is inside the func of slot s.
Computing(t, s) ==
    \E i \in 1..Len(stack[t]) :
        stack[t][i].s = s /\ stack[t][i].pc = "compute"

\* Thread t is blocked at line 138 on an event of slot s that is not set.
WaitingOn(t, s) ==
    /\ stack[t] # <<>>
    /\ Top(t).pc = "wait" /\ Top(t).s = s /\ Top(t).ev \notin evSet

\* Two threads, each inside the func of one slot and blocked on the other's.
MutualWait ==
    \E t1, t2 \in Threads, a, b \in Slots :
        /\ t1 # t2 /\ a # b
        /\ Computing(t1, a) /\ WaitingOn(t1, b)
        /\ Computing(t2, b) /\ WaitingOn(t2, a)

HasForward == \E s \in Slots : fwd[s] # NoneV

\* C3 as stated: no reachable state has two threads blocked on each other,
\* whatever the forward values.
C3_Original == ~MutualWait

\* C3 as amended: when at least one of the two slots has a forward value, no
\* state has the two threads blocked on each other's event, and every call
\* of __get__ in progress eventually returns.
C3_DeadlockFree ==
    /\ [](HasForward => ~MutualWait)
    /\ \A t \in Workers :
         (HasForward /\ stack[t] # <<>>) ~> (stack[t] = <<>>)

\* C3 witness: T1 is inside the func of A and its read of B, which T2 is
\* initializing, returned B's forward value; T2, inside the func of B, is in
\* a read of A.
C3_Witness ==
    \E t1, t2 \in Workers :
        /\ t1 # t2
        /\ Len(stack[t1]) = 1 /\ Top(t1).s = "A" /\ Top(t1).pc = "compute"
        /\ Top(t1).got = Fwd("B") /\ initThread["B"] = t2
        /\ Len(stack[t2]) = 2 /\ stack[t2][1].s = "B"
        /\ stack[t2][1].pc = "compute" /\ stack[t2][2].s = "A"

\* C4 as stated: once a run of func has returned and its result is written to
\* the owner, no later step starts func for that slot again or makes the
\* slot Initializing again.
C4_Original ==
    [][\A s \in Slots :
         (resolved[s] # Absent) =>
            /\ calls'[s] = calls[s]
            /\ (~initializing[s] => ~initializing'[s])]_vars

\* Thread t, at line 95 of a nested call, is also inside the func of the
\* same slot further down its stack.
ReentrantLocked(t) ==
    /\ Len(stack[t]) >= 2
    /\ Top(t).pc = "locked"
    /\ \E i \in 1..(Len(stack[t]) - 1) :
         stack[t][i].s = Top(t).s /\ stack[t][i].pc = "compute"

\* C5: a read of slot A made from inside the func of A, on the same thread,
\* returns forward_value to func at once: the call never blocks at line 138
\* and func is not started again.
C5_SameThreadForward ==
    /\ [][\A t \in Threads :
            (ReentrantLocked(t) /\ stack'[t] # stack[t]) =>
                /\ Len(stack'[t]) = Len(stack[t]) - 1
                /\ stack'[t][Len(stack'[t])].pc = "compute"
                /\ stack'[t][Len(stack'[t])].got = fwd[Top(t).s]
                /\ calls' = calls]_vars
    /\ [](\A t \in Threads :
            stack[t] # <<>> => ~(Top(t).pc = "wait" /\ Computing(t, Top(t).s)))

\* C5 witness: the func of A, in its first run, has read A and holds A's
\* forward value.
C5_Witness ==
    \E t \in Threads :
        /\ Len(stack[t]) = 1 /\ Top(t).s = "A" /\ Top(t).pc = "compute"
        /\ Top(t).rd = 1 /\ Top(t).got = Fwd("A") /\ calls["A"] = 1

\* What the owner holds under name n before any run of func stored there.
InitialStore(n) == IF n[2] = 1 THEN SlotV(n[1]) ELSE Absent

\* C6: when func raised, the cleanup leaves the slot Idle (not initializing,
\* no thread, no event) in the very step that hands the same exception to the
\* caller, and the owner's storage is untouched (after a first run that
\* raised it still holds what it held at the start); a read that runs func
\* and succeeds returns the object that run computed.
C6_RetryAfterFailure ==
    /\ [][\A t \in Threads :
            (/\ stack[t] # <<>>
             /\ Top(t).pc = "fin131"
             /\ IsExc(Top(t).val)
             /\ stack'[t] # stack[t]) =>
                /\ ~initializing'[Top(t).s]
                /\ initThread'[Top(t).s] = NoThread
                /\ initEvent'[Top(t).s] = NoEvent
                /\ store' = store
                /\ Len(stack[t]) = 1 =>
                     (result'[t].v = Top(t).val /\ result'[t].s = Top(t).s)
                /\ Len(stack[t]) > 1 =>
                     stack'[t][Len(stack'[t])].got = Top(t).val]_vars
    /\ [](\A t \in Threads : \A i \in 1..Len(stack[t]) :
            (stack[t][i].pc \in {"fin129", "fin130", "fin131"}
             /\ IsExc(stack[t][i].val)) =>
                /\ stack[t][i].val \in
                      {Exc(stack[t][i].s, stack[t][i].inv), stack[t][i].got}
                /\ DictGet(stack[t][i].n) \in {SlotV(stack[t][i].s), NoneV}
                /\ calls[stack[t][i].s] = 1 =>
                     store[stack[t][i].n] = InitialStore(stack[t][i].n))
    /\ [](\A t \in Threads :
            (result[t].inv >= 1 /\ ~IsExc(result[t].v)) =>
                result[t].v \in {Obj(result[t].s, result[t].inv), NoneV})

\* C6 witness: the first run of A's func raised and its caller got that
\* exception; a later read ran func again and returned the second run's
\* object.
C6_Witness ==
    \E t1, t2 \in Threads :
        /\ result[t1].s = "A" /\ result[t1].v = Exc("A", 1)
        /\ result[t1].inv = 1
        /\ result[t2].s = "A" /\ result[t2].v = Obj("A", 2)
        /\ result[t2].inv = 2
        /\ ~initializing["A"] /\ store[name["A"]] = Obj("A", 2)

\* Thread t was woken by the cleanup of a run that raised and is re-checking
\* the state at line 95.
WokenAfterFailure(t) ==
    /\ stack[t] # <<>>
    /\ Top(t).pc = "locked" /\ Top(t).ev \in failed

\* Every thread but t is the caller whose run of func raised, or has
\* blocked in its call, or has made no call.
OnlyWaiters(t) ==
    \A u \in Threads \ {t} :
        /\ stack[u] # <<>> => Top(u).w >= 1
        /\ stack[u] = <<>> =>
             (result[u].s = "" \/ IsExc(result[u].v) \/ result[u].w >= 1)

\* C7 as stated: every thread woken after a failure, on its re-check, either
\* becomes the new initializer or blocks again on the new event (no thread
\* but the failed caller and the blocked ones taking part).
C7_Original ==
    [][\A t \in Threads :
         (WokenAfterFailure(t) /\ OnlyWaiters(t) /\ stack'[t] # stack[t]) =>
            /\ stack'[t] # <<>>
            /\ stack'[t][Len(stack'[t])].pc \in {"init", "wait"}]_vars

\* C7 as amended: the cleanup of a run that raised leaves no thread blocked
\* on an unset event of the slot; a woken thread, on its re-check, becomes
\* the new initializer, blocks again, or finds the value another thread has
\* stored meanwhile; an exception of func reaches only the thread that ran
\* it; a slot never has two initializers.
C7_NoPoison ==
    /\ [][\A t \in Threads :
            (/\ stack[t] # <<>>
             /\ Top(t).pc = "fin131"
             /\ IsExc(Top(t).val)
             /\ stack'[t] # stack[t]) =>
                \A u \in Threads \ {t} :
                    (/\ stack[u] # <<>>
                     /\ Top(u).pc = "wait"
                     /\ Top(u).s = Top(t).s) => Top(u).ev \in evSet']_vars
    /\ [][\A t \in Threads :
            (WokenAfterFailure(t) /\ stack'[t] # stack[t]) =>
                /\ stack'[t] # <<>>
                /\ stack'[t][Len(stack'[t])].pc \in
                      {"init", "wait", "ret98"}]_vars
    /\ [](\A t \in Threads :
            (result[t].a = "" /\ IsExc(result[t].v)) =>
                (result[t].inv >= 1
                 /\ result[t].v = Exc(result[t].s, result[t].inv)))
    /\ [](\A s \in Slots : Cardinality(Initializers(s)) <= 1)

\* C7 witness: the first run raised while two threads were blocked; one of
\* them ran func again and returned its object, the other blocked a second
\* time and returned the same object.
C7_Witness ==
    \E t1, t2, t3 \in Threads :
        /\ result[t1].v = Exc("A", 1) /\ result[t1].inv = 1
        /\ result[t2].v = Obj("A", 2) /\ result[t2].inv = 2 /\ result[t2].w = 1
        /\ result[t3].v = Obj("A", 2) /\ result[t3].inv = 0 /\ result[t3].w = 2

\* A step in which a call of __get__ failed at lines 76-86: a top-level one
\* (a read is counted and no frame appears) or one made by func (func has
\* made one more read and is still the innermost frame).
TopError == gets' # gets /\ stack' = stack

NestedError(t) ==
    /\ stack[t] # <<>>
    /\ Len(stack'[t]) = Len(stack[t])
    /\ Top(t).pc = "compute"
    /\ stack'[t][Len(stack'[t])].rd = Top(t).rd + 1

\* C10: a call on a slot without a name, or without instance and class, ends
\* with AttributeError, respectively TypeError, and changes nothing: no call
\* gets past lines 76-86 without a name and an owner, and the failing step
\* leaves the slot, the lock, the owner's storage, the events, the depth
\* counters and the count of runs of func as they were.
C10_PreconditionErrors ==
    /\ [](\A t \in Threads : \A i \in 1..Len(stack[t]) :
            /\ stack[t][i].n # NoName
            /\ stack[t][i].n = name[stack[t][i].s]
            /\ stack[t][i].cls = "Owner")
    /\ [][TopError =>
            /\ UNCHANGED <<name, fwd, initializing, initThread, initEvent,
                           lock, store, evSet, nev, depth, calls>>
            /\ \E t \in Threads :
                 /\ \A u \in Threads \ {t} : result'[u] = result[u]
                 /\ result'[t].v \in {TypeErr, AttrErr}
                 /\ result'[t].v = TypeErr <=> result'[t].a = "none"
                 /\ result'[t].v = AttrErr => name[result'[t].s] = NoName]_vars
    /\ [][\A t \in Threads : NestedError(t) =>
            /\ UNCHANGED <<name, fwd, initializing, initThread, initEvent,
                           lock, store, evSet, nev, depth, calls, result>>
            /\ stack'[t][Len(stack'[t])].got \in {TypeErr, AttrErr}]_vars

\* C10 witness: one thread's read of the unbound slot B ended with
\* AttributeError and another thread's read without instance and class
\* ended with TypeError, and nothing else has happened.
C10_Witness ==
    \E t1, t2 \in Threads :
        /\ result[t1].s = "B" /\ result[t1].v = AttrErr /\ result[t1].a # "none"
        /\ result[t2].v = TypeErr /\ result[t2].a = "none"
        /\ name["B"] = NoName /\ calls = [s \in Slots |-> 0]
        /\ nev = 0 /\ \A t \in Threads : depth[t] = 0 /\ stack[t] = <<>>

\* Everything but the name of a slot and the record of the latest bind.
notName == <<fwd, initializing, initThread, initEvent, lock, store, evSet,
             nev, depth, stack, result, calls, gets, clean, resolved, failed>>

\* C11: a slot's name is always the first name it was given, at declaration
\* or by __set_name__; a __set_name__ on a slot that has a name changes
\* nothing, and the first one on a slot without a name sets the name only.
C11_FirstWins ==
    /\ [](\A s \in Slots : name[s] = firstName[s])
    /\ [][\A s \in Slots :
            (lastBound'[s] # lastBound[s] /\ name[s] # NoName) =>
                (name' = name /\ UNCHANGED notName)]_vars
    /\ [][\A s \in Slots :
            (lastBound'[s] # lastBound[s] /\ name[s] = NoName) =>
                /\ name' = [name EXCEPT ![s] = lastBound'[s]]
                /\ UNCHANGED notName]_vars

\* C11 witness: A, named <<A, 1>> at declaration, and B, first bound to
\* <<B, 1>>, were each bound again with their other name, B while a read of
\* it was in progress, and both kept the first name.
C11_Witness ==
    /\ name["A"] = <<"A", 1>> /\ lastBound["A"] = <<"A", 2>>
    /\ name["B"] = <<"B", 1>> /\ lastBound["B"] = <<"B", 2>>
    /\ \E t \in Workers :
         stack[t] # <<>> /\ Top(t).s = "B" /\ Top(t).n = <<"B", 1>>

\* Thread t takes the step of lines 95-120 on a slot that another thread is
\* initializing.
LockedOnOther(t) ==
    /\ stack[t] # <<>>
    /\ Top(t).pc = "locked"
    /\ stack'[t] # stack[t]
    /\ initializing[Top(t).s]
    /\ initThread[Top(t).s] \notin {t, NoThread}

\* The step ends t's call with value v: handed to the top level, or to the
\* run of func that made the call.
ReturnsNow(t, v) ==
    /\ Len(stack'[t]) = Len(stack[t]) - 1
    /\ IF Len(stack[t]) = 1
       THEN result'[t] = FrameOutcome(Top(t), v)
       ELSE stack'[t][Len(stack'[t])].got = v

\* The step leaves t's call at line 138, on the slot's event, which is not
\* set, and the slot's lock free.
BlocksNow(t) ==
    /\ Len(stack'[t]) = Len(stack[t])
    /\ stack'[t][Len(stack'[t])].pc = "wait"
    /\ stack'[t][Len(stack'[t])].ev = initEvent'[Top(t).s]
    /\ initEvent'[Top(t).s] \notin evSet' \cup {NoEvent}
    /\ lock'[Top(t).s] = NoThread

PlaceholderRule(t) ==
    IF fwd[Top(t).s] # NoneV /\ depth[t] > 0
    THEN ReturnsNow(t, fwd[Top(t).s]) /\ ~BlocksNow(t)
    ELSE BlocksNow(t)

\* C12 as stated: every read of a slot that another thread is initializing
\* returns the forward value at once when the slot has one and the reader's
\* depth is above 0, and blocks on the slot's event otherwise.
C12_Original == [][\A t \in Workers : LockedOnOther(t) => PlaceholderRule(t)]_vars

\* C12 as amended: the same, for a read that did not find a value other than
\* the slot itself (or None) in the owner's __dict__ at line 96.
C12_PlaceholderRule ==
    [][\A t \in Workers :
        (LockedOnOther(t) /\ DictGet(Top(t).n) \in {SlotV(Top(t).s), NoneV})
            => PlaceholderRule(t)]_vars

\* C12 witness: T1, inside the func of A, read B while T2 was initializing
\* it and got B's forward value; T2, inside the func of B, read A, which
\* has no forward value, and is blocked on A's event.
C12_Witness ==
    \E t1, t2 \in Workers :
        /\ t1 # t2 /\ fwd["A"] = NoneV
        /\ Len(stack[t1]) = 1 /\ Top(t1).s = "A" /\ Top(t1).pc = "compute"
        /\ Top(t1).got = Fwd("B") /\ initThread["B"] = t2
        /\ Len(stack[t2]) = 2 /\ stack[t2][1].pc = "compute"
        /\ depth[t2] > 0 /\ WaitingOn(t2, "A") /\ Top(t2).w = 1

\* The positions of __get__ inside the two with blocks (lines 94-120 and
\* 130-136).
LockPcs == {"locked", "ret98", "fin131"}

\* C13: a thread that is running a slot's func, or is blocked at line 138,
\* holds no slot's lock; a lock is only ever held by a thread whose current
\* call of __get__ is inside a with block of that slot.  So a slot's lock
\* is free again after one step of its holder, whatever the other threads
\* are computing.
C13_GuardNotHeld ==
    /\ \A t \in Threads :
         (stack[t] # <<>> /\ Top(t).pc \in {"init", "compute", "wait"}) =>
             \A s \in Slots : lock[s] # t
    /\ \A s \in Slots :
         lock[s] # NoThread =>
             /\ stack[lock[s]] # <<>>
             /\ Top(lock[s]).s = s
             /\ Top(lock[s]).pc \in LockPcs

\* C13 witness: T1 is inside the func of A and T2 is blocked on A's event,
\* no lock is held, and B, bound but not yet read by anybody, can be read.
C13_Witness ==
    \E t1, t2 \in Workers :
        /\ t1 # t2
        /\ stack[t1] # <<>>
        /\ Top(t1).s = "A" /\ Top(t1).pc = "compute"
        /\ WaitingOn(t2, "A")
        /\ \A s \in Slots : lock[s] = NoThread
        /\ name["B"] # NoName /\ ~initializing["B"] /\ calls["B"] = 0

\* The frames of an initializer past line 127 whose func returned.
Published(f) ==
    f.pc \in {"fin129", "fin130", "fin131"} /\ ~IsExc(f.val)

\* Thread t, woken by an event that was set after a run of func returned,
\* takes the step of lines 95-120.
WokenAfterSuccess(t) ==
    /\ stack[t] # <<>>
    /\ Top(t).pc = "locked"
    /\ stack'[t] # stack[t]
    /\ Top(t).w > 0
    /\ Top(t).ev \in evSet \ failed

\* C14 as stated: when func has returned, its result is in the owner's
\* __dict__ before the event is set and _initializing is reset, and every
\* thread woken by that event finds the result at line 96 and goes on to
\* return it at line 98; none becomes an initializer or blocks again.
C14_Original ==
    /\ [](\A t \in Threads : \A i \in 1..Len(stack[t]) :
            Published(stack[t][i]) =>
                /\ store[stack[t][i].n] = stack[t][i].val
                /\ initializing[stack[t][i].s]
                /\ stack[t][i].ev \notin evSet)
    /\ [][\A t \in Threads :
            WokenAfterSuccess(t) =>
                /\ stack'[t][Len(stack'[t])].pc = "ret98"
                /\ GetAttr(Top(t).n) = resolved[Top(t).s]]_vars

\* The positions of __get__ between _increment_init_depth (line 123) and
\* _decrement_init_depth (line 129): the runs of func active on a stack.
DepthPcs == {"compute", "set126", "ret127", "fin129"}

ActiveComputations(t) ==
    Cardinality({i \in 1..Len(stack[t]) : stack[t][i].pc \in DepthPcs})

\* C15: every thread's depth is a natural number and equals the number of
\* runs of func active on the thread's stack (so also while the thread is
\* inside func); _decrement_init_depth at depth 0 leaves 0; a step that
\* changes a thread's depth is a step of that thread and leaves the depth
\* of every other thread alone.
C15_DepthMeaning ==
    /\ [](\A t \in Threads :
            depth[t] \in Nat /\ depth[t] = ActiveComputations(t))
    /\ [](DecrementInitDepth(0) = 0)
    /\ [][\A t \in Threads :
            depth'[t] # depth[t] =>
                /\ stack'[t] # stack[t]
                /\ \A u \in Threads \ {t} : depth'[u] = depth[u]]_vars

\* C15 witness: T1 is inside the func of a slot that it started from inside
\* the func of the other slot, at depth 2, while T2, in a call of its own,
\* is at depth 0.
C15_Witness ==
    \E t1, t2 \in Workers :
        /\ t1 # t2
        /\ Len(stack[t1]) = 2 /\ depth[t1] = 2
        /\ stack[t1][1].pc = "compute" /\ stack[t1][2].pc = "compute"
        /\ stack[t2] # <<>> /\ depth[t2] = 0

\* C16: a thread blocked at line 138 waits on an event that is already set,
\* or on the slot's current event, which the slot's current initializer
\* holds and sets in its finally block; so, under a fair scheduler, with
\* three threads on one slot whose func reads no slot and ends by returning
\* or raising, every call of __get__ returns or raises.
C16_NoLostWakeup ==
    /\ [](\A t \in Threads :
            (stack[t] # <<>> /\ Top(t).pc = "wait") =>
                \/ Top(t).ev \in evSet
                \/ /\ Top(t).ev = initEvent[Top(t).s]
                   /\ initializing[Top(t).s]
                   /\ \E p \in Initializers(Top(t).s) :
                        stack[p[1]][p[2]].ev = Top(t).ev)
    /\ \A t \in Threads : (stack[t] # <<>>) ~> (stack[t] = <<>>)

\* C16 witness: a read that blocked twice, the first time on the event of a
\* run of func that raised, has returned an object.
C16_Witness ==
    \E t \in Threads :
        /\ stack[t] = <<>> /\ Completed(t, "A")
        /\ result[t].w = 2 /\ result[t].v[1] = "obj"
        /\ failed # {}

\* A step of thread t in a call of __get__ that ends at line 98 or at line
\* 102 or 109 without having blocked: the call itself, the acquisition of
\* the lock, lines 95-109 when they do not go on to wait or to initialize,
\* and the return of line 98.
ReadOnlyStep(t) ==
    /\ stack'[t] # stack[t]
    /\ \/ Len(stack'[t]) = Len(stack[t]) + 1
       \/ /\ stack[t] # <<>>
          /\ Top(t).pc = "lock"
       \/ /\ stack[t] # <<>>
          /\ Top(t).pc = "locked"
          /\ \/ Len(stack'[t]) = Len(stack[t]) - 1
             \/ stack'[t][Len(stack'[t])].pc = "ret98"
       \/ /\ stack[t] # <<>>
          /\ Top(t).pc = "ret98"

\* C17: the steps of a read that returns the value found in the owner's
\* __dict__, or the forward value, change neither _initializing, nor
\* _init_thread_id, nor _init_event, nor the owner's __dict__, nor any
\* thread's depth.
C17_ReadOnlyPaths ==
    [][\A t \in Threads :
        ReadOnlyStep(t) =>
            UNCHANGED <<initializing, initThread, initEvent, store, depth>>]_vars

\* C17 witness: T1, inside the func of B, which it started from inside the
\* func of A, has read B and got its forward value; B's result is stored
\* but B is still initializing, and T2's read of B has returned that result
\* without running func and without blocking.
C17_Witness ==
    \E t1, t2 \in Workers :
        /\ t1 # t2
        /\ Len(stack[t1]) = 2 /\ Top(t1).s = "B"
        /\ Top(t1).got = Fwd("B") /\ initializing["B"]
        /\ initThread["B"] = t1 /\ depth[t1] > 0
        /\ stack[t2] = <<>>
        /\ result[t2] = Outcome("B", Obj("B", 1), 0, 0, "")

\* Thread t takes the step of lines 131-136 and sets event e.
SetsEvent(t, e) ==
    /\ stack[t] # <<>>
    /\ Top(t).pc = "fin131"
    /\ stack'[t] # stack[t]
    /\ Top(t).ev = e
    /\ initEvent[Top(t).s] = e
    /\ initThread[Top(t).s] = t

\* C18: when a slot's lock is free, _init_event holds an event exactly when
\* _initializing is True, and that event is not set; an event is set only
\* in the finally block of the initializer that created it, once; and the
\* step that sends a thread to wait finds the event in place and creates
\* none (lines 112-113 never run).
C18_EventDiscipline ==
    /\ [](\A s \in Slots :
            lock[s] = NoThread =>
                /\ (initEvent[s] # NoEvent) <=> initializing[s]
                /\ initEvent[s] \notin evSet)
    /\ [][evSet' # evSet =>
            \E t \in Threads, e \in 1..nev :
                /\ e \notin evSet
                /\ evSet' = evSet \cup {e}
                /\ SetsEvent(t, e)]_vars
    /\ [][\A t \in Threads :
            (/\ stack[t] # <<>>
             /\ Top(t).pc = "locked"
             /\ Len(stack'[t]) = Len(stack[t])
             /\ stack'[t][Len(stack'[t])].pc = "wait") =>
                /\ initEvent[Top(t).s] # NoEvent
                /\ UNCHANGED <<initEvent, nev>>]_vars

\* C18 witness: the event of a first run of func has been set, a second run
\* is in progress with a new event, not set, on which a thread is blocked,
\* and the lock is free.
C18_Witness ==
    \E t1, t2 \in Threads :
        /\ t1 # t2
        /\ evSet # {} /\ lock["A"] = NoThread
        /\ initializing["A"] /\ initThread["A"] = t1
        /\ initEvent["A"] \notin evSet \cup {NoEvent}
        /\ stack[t1] # <<>> /\ Top(t1).ev = initEvent["A"]
        /\ WaitingOn(t2, "A") /\ Top(t2).ev = initEvent["A"]

====
